---- MODULE Spec2Model ----
(***************************************************************************)
(* Device registries of src/command.c: the adb registry (AdbMgr) with its  *)
(* "devices" parser, round-robin iterator and lazy model resolution, and   *)
(* the usbmuxd registry (USBMux) with its list ownership and Connect.      *)
(*                                                                         *)
(* Text is modelled byte by byte: a C string is a sequence of one-byte     *)
(* strings, a fixed char[N] field is a sequence of length N padded with    *)
(* NUL.  Slot indexes and the cursor are 0-based as in the source.         *)
(***************************************************************************)
EXTENDS Integers, Sequences, FiniteSets, TLC

\* ------------------------------------------------------------------ bounds
\* Number of slots of AdbMgr::deviceList (DEVICES_LIMIT of command.h).
DEVICES_LIMIT == 2
\* sizeof(AdbDevice::serial), sizeof(AdbDevice::state), sizeof(AdbDevice::model).
SerialCap == 3
StateCap == 8
ModelCap == 4
\* Most device lines in one captured "devices" output.
MaxLines == 4
\* NextDevice calls counted after a Reload, to follow the order of returns.
MaxCalls == 4
\* Most devices the usbmuxd daemon reports, and most lists it hands out.
MaxDevs == 2
MaxFetch == 3
\* Most arguments handed to adb_execute: past the count a build with 8-byte
\* pointers rejects.
MaxArgs == 254
\* Arguments of one vector handed to argv_to_string, bytes of one argument,
\* and bytes of its buffer.
MaxArgv == 3
MaxArgLen == 4
MaxBuf == 6

\* ------------------------------------------------------------------ bytes
NUL == "NUL"
SP == " "
TAB == "\t"
NL == "\n"

Zero(n) == [j \in 1..n |-> NUL]

\* Length of the C string held in a zero-padded buffer (strlen, capped).
RECURSIVE StrLenFrom(_, _)
StrLenFrom(b, j) ==
    IF j > Len(b) \/ b[j] = NUL THEN j - 1 ELSE StrLenFrom(b, j + 1)
StrLen(b) == StrLenFrom(b, 1)

\* The C string held in a buffer, as a sequence of bytes without the NUL.
CStr(b) == SubSeq(b, 1, StrLen(b))

IsPrefix(s, t) == Len(s) <= Len(t) /\ SubSeq(t, 1, Len(s)) = s

\* strchr(p, c): 1-based index of the first c in p, 0 for NULL.
RECURSIVE StrchrFrom(_, _, _)
StrchrFrom(p, c, j) ==
    IF j > Len(p) THEN 0
    ELSE IF p[j] = c THEN j ELSE StrchrFrom(p, c, j + 1)
Strchr(p, c) == StrchrFrom(p, c, 1)

\* strstr(p, needle) != NULL
Strstr(p, needle) ==
    \E k \in 0..(Len(p) - Len(needle)) :
        SubSeq(p, k + 1, k + Len(needle)) = needle

\* memcpy(dst, src, n) into a buffer of Len(dst) bytes: the bytes that land
\* inside the buffer.  MemCpyOob tells whether any byte lands outside it.
MemCpy(dst, src, n) ==
    [j \in 1..Len(dst) |-> IF j <= n THEN src[j] ELSE dst[j]]
MemCpyOob(dst, n) == n > Len(dst)

\* memcmp(a, b, n) == 0
MemEq(a, b, n) == \A j \in 1..n : a[j] = b[j]

\* strtok_r(buf, "\n", &n) repeated until NULL: the non-empty runs of
\* bytes between newlines, in order.
RECURSIVE StrtokFrom(_, _, _, _)
StrtokFrom(buf, j, cur, acc) ==
    IF j > Len(buf) THEN (IF cur = <<>> THEN acc ELSE Append(acc, cur))
    ELSE IF buf[j] = NL
         THEN StrtokFrom(buf, j + 1, <<>>,
                         IF cur = <<>> THEN acc ELSE Append(acc, cur))
         ELSE StrtokFrom(buf, j + 1, Append(cur, buf[j]), acc)
Strtok(buf) == StrtokFrom(buf, 1, <<>>, <<>>)


\* ------------------------------------------------------------ inputs
\* The lines joined as the backend prints them, each ended by a newline.
RECURSIVE Join(_)
Join(ls) == IF ls = <<>> THEN <<>> ELSE Head(ls) \o <<NL>> \o Join(Tail(ls))

ListOf == <<"L", "i", "s", "t", " ", "o", "f">>
Header == ListOf \o <<" ", "d">>
Offline == <<"o", "f", "f", "l", "i", "n", "e">>

\* Serial and state tokens of a chosen length, every byte different.
SerialBytes == <<"A", "B", "C", "D", "E", "F">>
StateBytes == <<"d", "e", "f", "g", "h", "i", "j", "k", "l", "m", "n", "p">>
SerialTok(a) == SubSeq(SerialBytes, 1, a)
StateTok(c) == SubSeq(StateBytes, 1, c)

\* Device lines of the registry life cycle: an online device, an offline
\* one, and one whose state starts with "off" without being "offline".
LifeLines ==
    << <<"A", SP, "d">>,
       <<"B", TAB>> \o Offline,
       <<"C", SP, "o", "f", "f", "x">> >>

\* n lines of a cyclic pattern pat, starting at its line s.
Cycle(pat, s, n) == [j \in 1..n |-> pat[((s + j - 2) % Len(pat)) + 1]]

\* Life-cycle outputs: the header and up to DEVICES_LIMIT device lines.
LifeOutputs ==
    {Join(<<Header>> \o Cycle(LifeLines, s, n)) :
        s \in 1..Len(LifeLines), n \in 0..DEVICES_LIMIT}

\* Well-formed device lines for the parser: a short one, and one whose
\* tokens are longer than their fields, after a run of tabs.
WellFormed ==
    << <<"A", SP, "d">>,
       SerialTok(SerialCap + 1) \o <<TAB, TAB>> \o StateTok(StateCap + 1) >>
\* A line with neither a space nor a tab.
NoSepLine == <<"A", "B">>

\* Parser outputs: a well-formed device lines, then nothing, or the line
\* without separator alone or followed by one more device line; at most
\* MaxLines lines after the header; the shortest of them without the
\* header too; and the outputs with no line at all: empty, or only newlines.
ParseBodies ==
    {b \in {Cycle(WellFormed, s, a) \o tail :
              s \in 1..Len(WellFormed), a \in 0..MaxLines,
              tail \in {<<>>, <<NoSepLine>>, <<NoSepLine, WellFormed[1]>>}} :
        Len(b) <= MaxLines}
ParseOutputs ==
    {Join(<<Header>> \o b) : b \in ParseBodies}
    \cup {Join(b) : b \in {c \in ParseBodies : Len(c) <= 1}}
    \cup {<<NL>>, <<NL, NL>>}

\* Single device lines for the field split: serial and state tokens of
\* every length up to one more than the field, around every separator run
\* of at most two blanks (none included), and a state holding a space.
SepRuns ==
    {<<>>, <<SP>>, <<TAB>>, <<SP, SP>>, <<TAB, TAB>>, <<SP, TAB>>, <<TAB, SP>>}
LineInputs ==
    {SerialTok(a) \o sep \o StateTok(c) :
        a \in 0..(SerialCap + 1), sep \in SepRuns, c \in 0..(StateCap + 1)}
    \cup {SerialTok(a) \o sep \o <<"n", SP, "p">> :
            a \in 1..(SerialCap + 1), sep \in SepRuns \ {<<>>}}
LineOutput(line) == Join(<<Header, line>>)

\* Every output a "devices" command is given to print; nothing is captured
\* from a command that failed.
Captured ==
    LifeOutputs \cup ParseOutputs \cup {LineOutput(l) : l \in LineInputs}
    \cup {<<>>}

\* ------------------------------------------------- process collaborators
\* What adb_execute + cmd_simple_wait can report for one backend command:
\* "none" is PROCESS_NONE (cmd_execute failed: binary missing or exec
\* failure), "badexit" is a started process whose wait fails, "ok" a
\* process that ran to a successful exit.
ProcResults == {"ok", "none", "badexit"}

process_check_success(proc) ==
    IF proc = "none" THEN FALSE
    ELSE IF proc = "badexit" THEN FALSE
    ELSE TRUE

\* -------------------------------------------------------- argv_to_string
\* The arguments are given by their lengths (strlen(arg)); buf has bufsize
\* bytes, indexes 0 .. bufsize-1.  One pass of the while loop per argument,
\* from argument k with the locals idx and truncated; top is the highest
\* index of buf written so far (-1 for none).  len = bufsize - idx - 2 is
\* computed in size_t: below zero it wraps around to a length near the
\* largest size_t, and the memcpy of that many bytes is undefined
\* behaviour, reported as wrapped.
RECURSIVE ArgvLoop(_, _, _, _, _)
ArgvLoop(lens, k, idx, bufsize, top) ==
    IF k > Len(lens)
    THEN [idx |-> idx, truncated |-> FALSE, wrapped |-> FALSE, top |-> top]
    ELSE
      LET trunc == idx + lens[k] + 1 >= bufsize
          len == IF trunc THEN bufsize - idx - 2 ELSE lens[k]
          sp == idx + len
      IN IF len < 0
         THEN [idx |-> idx, truncated |-> TRUE, wrapped |-> TRUE, top |-> top]
         ELSE IF trunc
         THEN [idx |-> sp + 1, truncated |-> TRUE, wrapped |-> FALSE,
               top |-> IF sp > top THEN sp ELSE top]
         ELSE ArgvLoop(lens, k + 1, sp + 1, bufsize,
                       IF sp > top THEN sp ELSE top)

\* bool argv_to_string(argv, buf, bufsize): what it returns (ret), where it
\* puts the terminator (term), the highest index of buf it writes (top) and
\* whether a copy length wrapped around.
argv_to_string(lens, bufsize) ==
    LET r == ArgvLoop(lens, 1, 0, bufsize, -1)
        term == IF r.idx > 0 THEN r.idx - 1 ELSE r.idx
    IN [fn |-> "argv_to_string", ret |-> r.truncated, wrapped |-> r.wrapped,
        term |-> term, top |-> IF term > r.top THEN term ELSE r.top]

\* ----------------------------------------------------------- adb_execute
\* const char *cmd[32];
CmdEntries == 32

\* if (len > sizeof(cmd)-4): sizeof(cmd) is the size of the array in bytes,
\* CmdEntries pointers of psize bytes.
ArgsRejected(len, psize) == len > CmdEntries * psize - 4

\* i = 3 after adb_exe, "-s", serial; i = 1 after adb_exe alone.
FirstArg(hasSerial) == IF hasSerial THEN 3 ELSE 1

\* cmd[len + i] = NULL: the highest index of cmd the call writes.
NullIndex(len, hasSerial) == len + FirstArg(hasSerial)

\* What a call of adb_execute does with len arguments: rejected (logged,
\* PROCESS_NONE, nothing run), or the vector built up to index top and
\* handed to cmd_execute; oob when an entry lands outside cmd.
adb_execute(hasSerial, len, psize) ==
    IF ArgsRejected(len, psize)
    THEN [fn |-> "adb_execute", rejected |-> TRUE, top |-> -1, oob |-> FALSE,
          ran |-> FALSE]
    ELSE [fn |-> "adb_execute", rejected |-> FALSE,
          top |-> NullIndex(len, hasSerial),
          oob |-> NullIndex(len, hasSerial) >= CmdEntries,
          ran |-> TRUE]

\* ------------------------------------------------------ AdbMgr::Reload
NullDevice ==
    [alloc |-> FALSE, serial |-> Zero(SerialCap), state |-> Zero(StateCap),
     model |-> Zero(ModelCap)]

\* if (len > sizeof(field)-1) len = sizeof(field)-1;
ClampLen(len, cap) == IF len > cap - 1 THEN cap - 1 ELSE len

\* sep = strchr(p, ' '); if (!sep) sep = strchr(p, '\t');   0 for NULL
FindSep(p) ==
    LET s == Strchr(p, SP) IN IF s # 0 THEN s ELSE Strchr(p, TAB)

\* while (*p != '\r' && *p != '\0' && (*p == ' ' || *p == '\t')) p++;
RECURSIVE SkipWs(_, _)
SkipWs(p, q) ==
    IF q <= Len(p) /\ (p[q] = SP \/ p[q] = TAB) THEN SkipWs(p, q + 1) ELSE q

\* (a store that leaves the model of the slot as it was)
StoreDeviceKeepModel(dl, i, serial, state) ==
    [dl EXCEPT ![i] = [alloc |-> TRUE, serial |-> serial, state |-> state,
                       model |-> @.model]]

\* (a store that also empties the slot after the one it writes)
StoreDeviceWipeNext(dl, i, serial, state) ==
    [j \in DOMAIN dl |->
        IF j = i THEN [alloc |-> TRUE, serial |-> serial, state |-> state,
                       model |-> Zero(ModelCap)]
        ELSE IF j = i + 1 THEN NullDevice
        ELSE dl[j]]

\* deviceList[i] allocated if NULL, serial and state copied whole, model
\* zeroed.
StoreDevice(dl, i, serial, state) ==
    [dl EXCEPT ![i] = [alloc |-> TRUE, serial |-> serial, state |-> state,
                       model |-> Zero(ModelCap)]]

\* (a line without separator that is passed over)
NoSepSkips == "continue"

\* if (!sep) break;
NoSepAct == "break"

\* One pass of the loop body over token p, up to the store: what the body
\* does ("continue", "break" or "store") and the local dev.serial, dev.state
\* it has built.  p[len] = 0 only cuts the token inside the local buffer,
\* before the state text, and is not read again.
ParseLine(p) ==
    LET none == [act |-> "continue", serial |-> Zero(SerialCap),
                 state |-> Zero(StateCap), oob |-> FALSE]
        sep == FindSep(p)
    IN
    IF Strstr(p, ListOf) THEN none
    ELSE IF sep = 0 THEN [none EXCEPT !.act = NoSepAct]
    ELSE IF sep - 1 <= 0 THEN none
    ELSE
      LET n1 == ClampLen(sep - 1, SerialCap)
          serial == MemCpy(Zero(SerialCap), p, n1)
          q == SkipWs(p, sep + 1)
          len2 == Len(p) - q + 1
      IN
      IF len2 <= 0 THEN [none EXCEPT !.serial = serial]
      ELSE
        LET n2 == ClampLen(len2, StateCap)
            state == MemCpy(Zero(StateCap), SubSeq(p, q, Len(p)), n2)
        IN [act |-> "store", serial |-> serial, state |-> state,
            oob |-> MemCpyOob(Zero(SerialCap), n1)
                    \/ MemCpyOob(Zero(StateCap), n2)]

\* (a loop that ends one slot short of the table)
AtLimitEarly(i) == i = DEVICES_LIMIT - 1

\* if (++i == DEVICES_LIMIT) break;   with i already incremented
AtLimit(i) == i = DEVICES_LIMIT

\* The loop bodies of every captured output, token by token (evaluated
\* once: ParseLine reads nothing of the registry).
ParsedLines ==
    [b \in Captured |->
        LET toks == Strtok(b) IN [k \in 1..Len(toks) |-> ParseLine(toks[k])]]

\* The do/while over the tokens, from token k with parse index i:
\* "continue" goes to the next token, "break" ends the loop, a store ends
\* it when ++i reaches DEVICES_LIMIT.
RECURSIVE ReloadLoop(_, _, _, _, _)
ReloadLoop(ls, k, i, dl, oob) ==
    IF k > Len(ls) THEN [dl |-> dl, i |-> i, oob |-> oob]
    ELSE IF ls[k].act = "break" THEN [dl |-> dl, i |-> i, oob |-> oob]
    ELSE IF ls[k].act = "continue" THEN ReloadLoop(ls, k + 1, i, dl, oob)
    ELSE
      LET dl2 == StoreDevice(dl, i, ls[k].serial, ls[k].state)
          oob2 == oob \/ ls[k].oob
      IN IF AtLimit(i + 1)
         THEN [dl |-> dl2, i |-> i + 1, oob |-> oob2]
         ELSE ReloadLoop(ls, k + 1, i + 1, dl2, oob2)

\* The parse of the captured output.  With no token at all the first
\* strtok_r returns NULL and the loop body passes it to strstr: undefined
\* behaviour, reported as ub.
ReloadParse(buf, dl) ==
    LET ls == ParsedLines[buf] IN
    IF ls = <<>>
    THEN [dl |-> dl, i |-> 0, oob |-> FALSE, ub |-> TRUE]
    ELSE LET r == ReloadLoop(ls, 1, 0, dl, FALSE)
         IN [dl |-> r.dl, i |-> r.i, oob |-> r.oob, ub |-> FALSE]

\* (a Reload that goes on to the parse whatever "devices" came to)
ReloadRunsAnyway(ro, dd) == process_check_success(ro)

\* Whether Reload goes on to capture and parse the "devices" output.
ReloadRuns(ro, dd) == process_check_success(ro) /\ process_check_success(dd)

\* ---------------------------------------------------------- GetModel
AlnumChars ==
    {"A", "B", "C", "D", "M", "P", "Q", "d", "e", "f", "i", "l", "n", "o",
     "p", "x", "1"}
ModelCharOk(c) == c \in AlnumChars \/ c = " " \/ c = "-" \/ c = "_"

\* while (p < end && ok(*p)) p++;   with end = buf + sizeof(model) - 2
RECURSIVE ModelScan(_, _, _)
ModelScan(text, j, end) ==
    IF j < end /\ j + 1 <= Len(text) /\ ModelCharOk(text[j + 1])
    THEN ModelScan(text, j + 1, end)
    ELSE j

\* (a resolution that copies the text as it is, up to the same end)
GetModelUnfiltered(model, proc, text) ==
    IF process_check_success(proc)
    THEN MemCpy(model, text,
                IF Len(text) < ModelCap - 2 THEN Len(text) ELSE ModelCap - 2)
    ELSE model

\* The model field after GetModel, given the command's result and text.
GetModel(model, proc, text) ==
    IF process_check_success(proc)
    THEN MemCpy(model, text, ModelScan(text, 0, ModelCap - 2))
    ELSE model


\* Texts "shell getprop ro.product.model" can print.
ModelTexts == { <<"M", NL>>, <<NL>>, <<>> }

\* Pointer sizes of the builds: sizeof(offline) in NextDevice.
PtrSizes == {4, 8}

\* What the build can do once strstr is handed NULL.
UbOutcomes == {"crash", "benign"}

\* ------------------------------------------------------------- state
VARIABLES
    ptrSize,      \* sizeof(const char *) of the build
    deviceList,   \* AdbMgr::deviceList, slot |-> device record (alloc = non-NULL)
    iter,         \* AdbMgr::iter
    is_offline,   \* the caller's int that NextDevice writes through its argument
    crashed,      \* the process died in undefined behaviour
    lastOp,       \* the operation of the last step
    retOk,        \* Reload's return value
    retDev,       \* NextDevice's return: the slot index of the record, -1 for null
    roRes,        \* what the last Reload's "reconnect offline" command came to
    ddRes,        \* what the last Reload's "devices" command came to
    lastOut,      \* the "devices" output the last Reload captured
    nWritten,     \* slots the last Reload wrote (the final value of i)
    oobWrite,     \* a memcpy of the last Reload went past a field buffer
    issued,       \* the last NextDevice ran the model-resolution command
    cleared,      \* slots a Reload wrote that NextDevice has not returned since
    nCalls,       \* NextDevice calls since a Reload (or the construction) that
                  \* left the cursor at 0; -1 when it did not, or past MaxCalls
    lineIn,       \* the device line the backend reports (field-split runs)
    failed        \* slots whose last model-resolution command failed or printed
                  \* a text that starts with a character GetModel does not copy

adbVars ==
    <<ptrSize, deviceList, iter, is_offline, crashed, lastOp, retOk, retDev,
      roRes, ddRes, lastOut, nWritten, oobWrite, issued, cleared, nCalls, lineIn,
      failed>>

\* The usbmuxd registry (USBMux) and what its daemon client is asked to do.
VARIABLES
    build,          \* the platform the file is compiled for
    hModule,        \* _WIN32: LoadLibrary("usbmuxd.dll") succeeded
    freeNulls,      \* the client's usbmuxd_device_list_free resets *list to NULL
    muxList,        \* USBMux::deviceList: 0 for NULL, else the id of a fetched list
    deviceCount,    \* USBMux::deviceCount
    muxIter,        \* USBMux::iter
    alive,          \* the registry has not been destroyed
    fetched,        \* lists usbmuxd_get_device_list has handed out so far
    released,       \* list id |-> times usbmuxd_device_list_free released it (0, 1, 2 = more)
    muxOp,          \* the operation of the last step
    muxRet,         \* its return value
    argDevice,      \* the device index given to the last Connect
    connectCalled,  \* the last Connect called usbmuxd_connect
    elemRead        \* the last Connect read the handle of a deviceList element

muxVars ==
    <<build, hModule, freeNulls, muxList, deviceCount, muxIter, alive,
      fetched, released, muxOp, muxRet, argDevice, connectCalled, elemRead>>

\* The free functions of the file, called on their own.
VARIABLES
    fnCall,         \* the function called last and its arguments
    fnRet           \* what it returned and wrote

pureVars == <<fnCall, fnRet>>

Slots == 0..(DEVICES_LIMIT - 1)

\* The cursor of a fresh registry.
IterInit == 0

\* AdbMgr::AdbMgr(): every slot NULL.  The "start-server" result is only
\* logged.  line is the device line the backend reports in the field-split
\* runs.
AdbNew(line) ==
    /\ ptrSize \in PtrSizes
    /\ deviceList = [j \in Slots |-> NullDevice]
    /\ iter = IterInit
    /\ is_offline = -1
    /\ crashed = FALSE
    /\ lastOp = "new"
    /\ retOk = TRUE
    /\ retDev = -1
    /\ roRes = "ok"
    /\ ddRes = "ok"
    /\ lastOut = <<>>
    /\ nWritten = 0
    /\ oobWrite = FALSE
    /\ issued = FALSE
    /\ cleared = {}
    /\ nCalls = 0
    /\ lineIn = line
    /\ failed = {}

\* Reload returning false after a command failed: nothing else is touched.
ReloadFailed ==
    /\ retOk' = FALSE
    /\ nWritten' = 0
    /\ UNCHANGED <<deviceList, crashed, oobWrite, cleared>>

\* Reload past both commands: the parse of buf, or undefined behaviour.
ReloadParsed(buf) ==
    LET r == ReloadParse(buf, deviceList) IN
    /\ \E ub \in (IF r.ub THEN UbOutcomes ELSE {"benign"}) :
         /\ crashed' = (r.ub /\ ub = "crash")
         /\ retOk' = ~crashed'
    /\ deviceList' = r.dl
    /\ nWritten' = r.i
    /\ oobWrite' = r.oob
    /\ cleared' = cleared \cup {j \in Slots : j < r.i}

\* bool AdbMgr::Reload(void).  ro and dd are what the backend makes of
\* "reconnect offline" and "devices" (dd matters only once ro succeeded),
\* buf is what "devices" prints when it runs to a successful exit, drawn
\* from outs.
Reload(outs) ==
    /\ ~crashed
    /\ lastOp' = "Reload"
    /\ retDev' = -1
    /\ issued' = FALSE
    /\ nCalls' = IF iter = 0 THEN 0 ELSE -1
    /\ UNCHANGED <<ptrSize, iter, is_offline, lineIn, failed>>
    /\ UNCHANGED muxVars
    /\ UNCHANGED pureVars
    /\ \E ro \in ProcResults, dd \in ProcResults :
         /\ ro # "ok" => dd = "ok"
         /\ \E buf \in (IF ro = "ok" /\ dd = "ok" THEN outs ELSE {<<>>}) :
              /\ roRes' = ro
              /\ ddRes' = dd
              /\ lastOut' = buf
              /\ IF ReloadRuns(ro, dd) THEN ReloadParsed(buf) ELSE ReloadFailed

\* memcmp(offline, state, sizeof(offline)-1) == 0
IsOffline(state, psize) == MemEq(Offline, state, psize - 1)

\* (a resolution that does not look at the offline flag)
NeedsModelAnyState(off, model) == model[1] = NUL

\* if (!*is_offline && dev->model[0] == 0) GetModel(dev);
NeedsModel(off, model) == ~off /\ model[1] = NUL

\* The results of the model-resolution command.
ModelResults ==
    {[proc |-> "none", text |-> <<>>], [proc |-> "badexit", text |-> <<>>]}
    \cup {[proc |-> "ok", text |-> t] : t \in ModelTexts}

\* The model command of a backend that answers with a model name.
ModelAnswers == {[proc |-> "ok", text |-> <<"M", NL>>]}

\* The command failed, or printed nothing, or a text whose first character
\* is not one the scan of GetModel passes.
NoModelIn(m) ==
    \/ ~process_check_success(m.proc)
    \/ m.text = <<>>
    \/ ~ModelCharOk(m.text[1])

\* (a cursor that starts over at every call)
WrapIterAlways(it) == 0

\* if (iter >= DEVICES_LIMIT) iter = 0;
WrapIter(it) == IF it >= DEVICES_LIMIT THEN 0 ELSE it

\* (a cursor that stays where it is)
CursorStuck(it) == it

\* iter++ on a non-null return
CursorAfter(it) == it + 1

\* AdbDevice* AdbMgr::NextDevice(int *is_offline), with the model command
\* coming to one of results when it is run.
NextDeviceWith(results) ==
    /\ ~crashed
    /\ lastOp' = "NextDevice"
    /\ nCalls' = IF nCalls >= 0 /\ nCalls < MaxCalls THEN nCalls + 1 ELSE -1
    /\ UNCHANGED <<ptrSize, crashed, retOk, roRes, ddRes, lastOut, nWritten,
                   oobWrite, lineIn>>
    /\ UNCHANGED muxVars
    /\ UNCHANGED pureVars
    /\ LET it == WrapIter(iter) IN
       IF deviceList[it].alloc
       THEN LET dev == deviceList[it]
                off == IsOffline(dev.state, ptrSize)
                run == NeedsModel(off, dev.model)
            IN /\ is_offline' = IF off THEN 1 ELSE 0
               /\ iter' = CursorAfter(it)
               /\ retDev' = it
               /\ issued' = run
               /\ cleared' = cleared \ {it}
               /\ IF run
                  THEN \E m \in results :
                         /\ deviceList' =
                              [deviceList EXCEPT
                                 ![it].model = GetModel(@, m.proc, m.text)]
                         /\ failed' = IF NoModelIn(m) THEN failed \cup {it}
                                      ELSE failed \ {it}
                  ELSE UNCHANGED <<deviceList, failed>>
       ELSE /\ iter' = it
            /\ retDev' = -1
            /\ issued' = FALSE
            /\ UNCHANGED <<deviceList, is_offline, cleared, failed>>

\* NextDevice in front of a backend that may fail the model command.
NextDevice == NextDeviceWith(ModelResults)

\* ================================================================ USBMux
\* The builds of the file: __APPLE__, _WIN32 (usbmuxd.dll loaded at run
\* time), and any other platform (the client library linked in).
Builds == {"apple", "win32", "other"}

\* Whether the bodies of Reload and Connect reach the daemon client.
ClientUsable(b, loaded) == b # "apple" /\ (b = "win32" => loaded)

\* The invalid-handle value Connect returns.
INVALID_SOCKET == -1

ListIds == 1..MaxFetch

\* The fields of a fresh USBMux.
MuxFieldInit == 0

\* USBMux::USBMux() of build b: on _WIN32 the library load may fail.
MuxNew(b) ==
    /\ build = b
    /\ hModule \in (IF b = "win32" THEN BOOLEAN ELSE {FALSE})
    /\ freeNulls \in BOOLEAN
    /\ muxList = MuxFieldInit
    /\ deviceCount = MuxFieldInit
    /\ muxIter = MuxFieldInit
    /\ alive = TRUE
    /\ fetched = 0
    /\ released = [id \in ListIds |-> 0]
    /\ muxOp = "new"
    /\ muxRet = 0
    /\ argDevice = 0
    /\ connectCalled = FALSE
    /\ elemRead = FALSE

\* usbmuxd_device_list_free(&deviceList): the list the pointer names is
\* released (counted up to "more than once"); the pointer is reset or left
\* as it was, as the client does.
ListFreeCount(rel, ptr) ==
    IF ptr = 0 THEN rel ELSE [rel EXCEPT ![ptr] = IF @ < 2 THEN @ + 1 ELSE @]
ListFreePtr(ptr, nulls) == IF nulls THEN 0 ELSE ptr

\* int USBMux::Reload(void).  n is what usbmuxd_get_device_list returns: a
\* count and a new list, or a negative error that leaves the pointer alone.
MuxReload ==
    /\ alive
    /\ muxOp' = "Reload"
    /\ UNCHANGED adbVars
    /\ UNCHANGED pureVars
    /\ UNCHANGED <<build, hModule, freeNulls, muxIter, alive, argDevice,
                   connectCalled, elemRead>>
    /\ IF ~ClientUsable(build, hModule)
       THEN /\ deviceCount' = 0
            /\ muxRet' = 0
            /\ UNCHANGED <<muxList, fetched, released>>
       ELSE \E n \in -1..MaxDevs :
              /\ n >= 0 => fetched < MaxFetch
              /\ released' = ListFreeCount(released, muxList)
              /\ IF n < 0
                 THEN /\ muxList' = ListFreePtr(muxList, freeNulls)
                      /\ fetched' = fetched
                      /\ deviceCount' = 0
                      /\ muxRet' = 0
                 ELSE /\ muxList' = fetched + 1
                      /\ fetched' = fetched + 1
                      /\ deviceCount' = n
                      /\ muxRet' = 1

\* usbmuxd_device_info_t* USBMux::NextDevice(void): the index of the
\* record returned, -1 for null.
MuxNextDevice ==
    /\ alive
    /\ muxOp' = "NextDevice"
    /\ UNCHANGED adbVars
    /\ UNCHANGED pureVars
    /\ UNCHANGED <<build, hModule, freeNulls, muxList, deviceCount, alive,
                   fetched, released, argDevice, connectCalled, elemRead>>
    /\ IF muxIter >= deviceCount
       THEN muxRet' = -1 /\ muxIter' = muxIter
       ELSE muxRet' = muxIter /\ muxIter' = muxIter + 1

\* if (device < deviceCount)
ConnectInRange(device, count) == device < count

\* int USBMux::Connect(int device, int port).  rc is what usbmuxd_connect
\* returns when it is called.
MuxConnect ==
    /\ alive
    /\ muxOp' = "Connect"
    /\ UNCHANGED adbVars
    /\ UNCHANGED pureVars
    /\ UNCHANGED <<build, hModule, freeNulls, muxList, deviceCount, muxIter,
                   alive, fetched, released>>
    /\ \E device \in -1..MaxDevs :
         /\ argDevice' = device
         /\ IF ClientUsable(build, hModule)
               /\ ConnectInRange(device, deviceCount)
            THEN /\ elemRead' = TRUE
                 /\ connectCalled' = TRUE
                 /\ \E rc \in {-1, 0, 1} :
                      muxRet' = IF rc <= 0 THEN INVALID_SOCKET ELSE rc
            ELSE /\ elemRead' = FALSE
                 /\ connectCalled' = FALSE
                 /\ muxRet' = INVALID_SOCKET

\* Whether ~USBMux releases the held list: only inside #ifdef _WIN32, with
\* the library loaded.
DtorFrees(b, loaded) == b = "win32" /\ loaded

\* USBMux::~USBMux()
MuxDestroy ==
    /\ alive
    /\ alive' = FALSE
    /\ muxOp' = "Destroy"
    /\ UNCHANGED adbVars
    /\ UNCHANGED pureVars
    /\ muxRet' = 0
    /\ released' = IF DtorFrees(build, hModule)
                   THEN ListFreeCount(released, muxList)
                   ELSE released
    /\ muxList' = IF DtorFrees(build, hModule)
                  THEN ListFreePtr(muxList, freeNulls)
                  ELSE muxList
    /\ UNCHANGED <<build, hModule, freeNulls, deviceCount, muxIter, fetched,
                   argDevice, connectCalled, elemRead>>

\* ======================================================== specifications
vars == <<adbVars, muxVars, pureVars>>

\* The two registries share nothing: each specification runs one of them
\* and leaves the other as constructed.
AdbIdle == AdbNew(<<>>) /\ ptrSize = 8
MuxIdle == MuxNew("other") /\ ~freeNulls
NoCall == [fn |-> "none"]
PureIdle == fnCall = NoCall /\ fnRet = NoCall

\* The adb registry in its life cycle.
Init == AdbNew(<<>>) /\ MuxIdle /\ PureIdle
Next == Reload(LifeOutputs) \/ NextDevice
Spec == Init /\ [][Next]_vars

\* The adb registry in front of the parser's outputs; the parse reads
\* nothing that depends on the pointer size or on what the model command
\* comes to.
InitParse == AdbIdle /\ MuxIdle /\ PureIdle
NextParse == Reload(ParseOutputs) \/ NextDeviceWith(ModelAnswers)
SpecParse == InitParse /\ [][NextParse]_vars

\* The adb registry in front of a backend that reports one device line.
InitLine == (\E l \in LineInputs : AdbNew(l)) /\ MuxIdle /\ PureIdle
NextLine == Reload({LineOutput(lineIn)}) \/ NextDevice
SpecLine == InitLine /\ [][NextLine]_vars

\* The usbmuxd registry, on every build.
InitMux == AdbIdle /\ (\E b \in Builds : MuxNew(b)) /\ PureIdle
NextMux == MuxReload \/ MuxNextDevice \/ MuxConnect \/ MuxDestroy
SpecMux == InitMux /\ [][NextMux]_vars

\* adb_execute on its own, on both pointer sizes, with every argument
\* count up to MaxArgs.
InitExec ==
    /\ AdbNew(<<>>) /\ MuxIdle
    /\ \E len \in 0..MaxArgs, hasSerial \in BOOLEAN :
         fnCall = [fn |-> "adb_execute", hasSerial |-> hasSerial, len |-> len]
    /\ fnRet = NoCall
AdbExecuteCall ==
    /\ fnCall.fn = "adb_execute" /\ fnRet = NoCall
    /\ fnRet' = adb_execute(fnCall.hasSerial, fnCall.len, ptrSize)
    /\ UNCHANGED <<fnCall, adbVars, muxVars>>
NextExec == AdbExecuteCall
SpecExec == InitExec /\ [][NextExec]_vars

\* argv_to_string on its own: every vector of at most MaxArgv arguments of
\* at most MaxArgLen bytes, into every buffer of 2 .. MaxBuf bytes.
ArgvInputs ==
    UNION {[1..n -> 0..MaxArgLen] : n \in 0..MaxArgv}
InitArgv ==
    /\ AdbIdle /\ MuxIdle
    /\ \E lens \in ArgvInputs, bufsize \in 2..MaxBuf :
         fnCall = [fn |-> "argv_to_string", lens |-> lens, bufsize |-> bufsize]
    /\ fnRet = NoCall
ArgvToStringCall ==
    /\ fnCall.fn = "argv_to_string" /\ fnRet = NoCall
    /\ fnRet' = argv_to_string(fnCall.lens, fnCall.bufsize)
    /\ UNCHANGED <<fnCall, adbVars, muxVars>>
NextArgv == ArgvToStringCall
SpecArgv == InitArgv /\ [][NextArgv]_vars

\* Model resolution on its own.  GetModel is only called on a record whose
\* model[0] is 0, and a model buffer only ever holds zeros after its
\* string, so the field it writes into is all zeros.
ModelAlphabet == {"M", "-", NL, "("}
ModelInputs ==
    UNION {[1..k -> ModelAlphabet] : k \in 0..(ModelCap + 1)}
InitModel ==
    /\ AdbIdle /\ MuxIdle
    /\ \E text \in ModelInputs, proc \in ProcResults :
         fnCall = [fn |-> "GetModel", proc |-> proc, text |-> text]
    /\ fnRet = NoCall
GetModelCall ==
    /\ fnCall.fn = "GetModel" /\ fnRet = NoCall
    /\ fnRet' = [fn |-> "GetModel",
                 model |-> GetModel(Zero(ModelCap), fnCall.proc, fnCall.text)]
    /\ UNCHANGED <<fnCall, adbVars, muxVars>>
NextModel == GetModelCall
SpecModel == InitModel /\ [][NextModel]_vars

\* ================================================================ claims
Populated(dl) == {j \in Slots : dl[j].alloc}
ModelEmpty(dev) == dev.model[1] = NUL
CmdFailed == roRes # "ok" \/ ddRes # "ok"

\* C1: a Reload whose "reconnect offline" or "devices" command could not
\* be spawned or exited abnormally returns false and leaves every slot of
\* the device table (null-ness, serial, state, model) and the cursor as
\* they were before the call.
C1_ReloadFailureAtomic ==
    [][(lastOp' = "Reload" /\ CmdFailed')
         => (~retOk' /\ deviceList' = deviceList /\ iter' = iter)]_vars

\* A failed Reload on a table that holds a device with a resolved model,
\* the cursor advanced.
C1_Witness ==
    /\ lastOp = "Reload" /\ ddRes = "badexit" /\ ~retOk
    /\ iter = 1
    /\ deviceList[0].alloc /\ ~ModelEmpty(deviceList[0])

\* The fields of a device line as the backend means them: the serial is
\* the text before the first blank (space or tab), the state the text
\* after the run of blanks that follows it.
IsWs(c) == c = SP \/ c = TAB
FirstWs(line) ==
    IF \E j \in 1..Len(line) : IsWs(line[j])
    THEN CHOOSE j \in 1..Len(line) :
            IsWs(line[j]) /\ \A k \in 1..(j - 1) : ~IsWs(line[k])
    ELSE 0
AfterWs(line) ==
    IF \E j \in (FirstWs(line) + 1)..Len(line) : ~IsWs(line[j])
    THEN CHOOSE j \in (FirstWs(line) + 1)..Len(line) :
            ~IsWs(line[j]) /\ \A k \in (FirstWs(line) + 1)..(j - 1) : IsWs(line[k])
    ELSE Len(line) + 1
SerialField(line) == SubSeq(line, 1, FirstWs(line) - 1)
StateField(line) == SubSeq(line, AfterWs(line), Len(line))
\* <serial><whitespace><state>, both tokens non-empty and free of blanks.
WellFormedLine(line) ==
    /\ FirstWs(line) > 1
    /\ StateField(line) # <<>>
    /\ \A j \in 1..Len(StateField(line)) : ~IsWs(StateField(line)[j])
\* A token cut to the bytes a field of cap bytes can hold before its NUL.
Cut(tok, cap) == SubSeq(tok, 1, IF Len(tok) > cap - 1 THEN cap - 1 ELSE Len(tok))
\* The lines of a captured output, and its device lines when the first line
\* is the header.
OutLines(buf) == Strtok(buf)
DeviceLines(buf) == SubSeq(OutLines(buf), 2, Len(OutLines(buf)))
\* The header line followed by N <= DEVICES_LIMIT well-formed device lines.
WellFormedOutput(buf) ==
    /\ OutLines(buf) # <<>>
    /\ OutLines(buf)[1] = Header
    /\ Len(DeviceLines(buf)) <= DEVICES_LIMIT
    /\ \A k \in 1..Len(DeviceLines(buf)) : WellFormedLine(DeviceLines(buf)[k])

\* The well-formed outputs among those the parser is given, and for each
\* the serial and state its device lines report, cut to the fields.
WellFormedOutputs == {b \in ParseOutputs : WellFormedOutput(b)}
Reported ==
    [b \in WellFormedOutputs |->
        [k \in 1..Len(DeviceLines(b)) |->
            [serial |-> Cut(SerialField(DeviceLines(b)[k]), SerialCap),
             state |-> Cut(StateField(DeviceLines(b)[k]), StateCap)]]]
\* The device record holds the reported serial and state.
Holds(dev, rep) ==
    dev.alloc /\ CStr(dev.serial) = rep.serial /\ CStr(dev.state) = rep.state

StartsOffline(dev) == MemEq(Offline, dev.state, Len(Offline))

\* C3 as claimed: once NextDevice has resolved the model of a slot, no later
\* NextDevice issues the model-resolution command for it until a Reload
\* rewrites the slot; every successful Reload clears the model of every
\* slot it writes; and the next NextDevice that returns such a slot with a
\* state that is not offline issues the command again.
C3_LazyFetchOnce ==
    [][/\ (lastOp' = "NextDevice" /\ retDev' >= 0
           /\ ~ModelEmpty(deviceList[retDev']))
          => ~issued'
       /\ (lastOp' = "Reload" /\ retOk')
          => \A j \in Slots : j < nWritten' => ModelEmpty(deviceList'[j])
       /\ (lastOp' = "NextDevice" /\ retDev' >= 0 /\ retDev' \in cleared
           /\ ~StartsOffline(deviceList[retDev']))
          => issued']_vars

\* C4: a NextDevice that returns a slot whose state begins with "offline"
\* never issues the model-resolution command and the model of the slot is
\* empty, however often the slot is visited; the command is issued only for
\* a slot whose state does not begin with "offline", and no slot with such a
\* state ever holds a model.
C4_OfflineNeverResolved ==
    [][/\ (lastOp' = "NextDevice" /\ retDev' >= 0
           /\ StartsOffline(deviceList[retDev']))
          => (~issued' /\ ModelEmpty(deviceList'[retDev']))
       /\ (lastOp' = "NextDevice" /\ issued')
          => ~StartsOffline(deviceList[retDev'])
       /\ \A j \in Slots :
            (deviceList'[j].alloc /\ StartsOffline(deviceList'[j]))
            => ModelEmpty(deviceList'[j])]_vars

\* NextDevice returns an offline slot for the second time since the Reload
\* (the cursor has wrapped), its model still empty.
C4_Witness ==
    /\ lastOp = "NextDevice" /\ nCalls = DEVICES_LIMIT + 1
    /\ retDev = 0 /\ StartsOffline(deviceList[0]) /\ ~issued
    /\ ModelEmpty(deviceList[0])

\* C5: with the cursor at 0 and no Reload in between, the populated slots
\* are 0..k-1; with k = DEVICES_LIMIT call n returns slot (n-1) mod
\* DEVICES_LIMIT (0, 1, ..., DEVICES_LIMIT-1, then 0 again), with
\* k < DEVICES_LIMIT calls 1..k return slots 0..k-1 and call k+1 returns
\* null.
C5_IteratorWrap ==
    (lastOp = "NextDevice" /\ nCalls >= 1)
    => LET k == Cardinality(Populated(deviceList)) IN
       /\ Populated(deviceList) = 0..(k - 1)
       /\ k = DEVICES_LIMIT => retDev = (nCalls - 1) % DEVICES_LIMIT
       /\ k < DEVICES_LIMIT
          => /\ nCalls <= k => retDev = nCalls - 1
             /\ nCalls = k + 1 => retDev = -1

\* The call after DEVICES_LIMIT returns, on a full table: slot 0 again.
C5_Witness ==
    /\ lastOp = "NextDevice" /\ nCalls = DEVICES_LIMIT + 1
    /\ Populated(deviceList) = Slots /\ retDev = 0 /\ iter = 1

\* The first device line with neither a space nor a tab, 0 for none.
NoSepIndex(buf) ==
    LET ds == DeviceLines(buf)
        ks == {k \in 1..Len(ds) : FirstWs(ds[k]) = 0}
    IN IF ks = {} THEN 0 ELSE CHOOSE k \in ks : \A m \in ks : k <= m

\* The parser's outputs that start with the header and have such a line k after
\* well-formed device lines, and for each the serial and state the k-1
\* lines before it report, cut to the fields.
ShortCircuited ==
    {b \in ParseOutputs :
        /\ OutLines(b) # <<>>
        /\ OutLines(b)[1] = Header
        /\ NoSepIndex(b) > 0
        /\ \A k \in 1..(NoSepIndex(b) - 1) : WellFormedLine(DeviceLines(b)[k])}
Preceding ==
    [b \in ShortCircuited |->
        [k \in 1..(NoSepIndex(b) - 1) |->
            [serial |-> Cut(SerialField(DeviceLines(b)[k]), SerialCap),
             state |-> Cut(StateField(DeviceLines(b)[k]), StateCap)]]]

\* C6 as claimed: when both commands succeed and device line k has neither
\* a space nor a tab, Reload returns true, writes exactly the k-1 device
\* lines before it into slots 0..k-2, and writes no slot from line k or
\* from a line after it, whatever k is.
C6_ShortCircuitAnyK ==
    [][(lastOp' = "Reload" /\ ~CmdFailed' /\ lastOut' \in ShortCircuited)
         => LET ls == Preceding[lastOut'] IN
            /\ retOk'
            /\ nWritten' = Len(ls)
            /\ \A j \in 0..(Len(ls) - 1) : Holds(deviceList'[j], ls[j + 1])
            /\ \A j \in Slots : j >= Len(ls) => deviceList'[j] = deviceList[j]]_vars

\* C6 amended: the same, for a line k with at most DEVICES_LIMIT device
\* lines before it.
C6_ShortCircuit ==
    [][(/\ lastOp' = "Reload" /\ ~CmdFailed' /\ lastOut' \in ShortCircuited
        /\ Len(Preceding[lastOut']) <= DEVICES_LIMIT)
         => LET ls == Preceding[lastOut'] IN
            /\ retOk'
            /\ nWritten' = Len(ls)
            /\ \A j \in 0..(Len(ls) - 1) : Holds(deviceList'[j], ls[j + 1])
            /\ \A j \in Slots : j >= Len(ls) => deviceList'[j] = deviceList[j]]_vars

\* C6 beyond the table: with more than DEVICES_LIMIT device lines before
\* line k, Reload returns true having written DEVICES_LIMIT slots.
C6_TableFull ==
    [][(/\ lastOp' = "Reload" /\ ~CmdFailed' /\ lastOut' \in ShortCircuited
        /\ Len(Preceding[lastOut']) > DEVICES_LIMIT)
         => (retOk' /\ nWritten' = DEVICES_LIMIT)]_vars

\* A Reload of one device line, a line without separator and one more
\* device line, on an empty table: one slot written, the second still null.
C6_Witness ==
    /\ lastOp = "Reload" /\ ~CmdFailed /\ lastOut \in ShortCircuited
    /\ Len(Preceding[lastOut]) = 1
    /\ Len(DeviceLines(lastOut)) = 3
    /\ retOk /\ nWritten = 1
    /\ deviceList[0].alloc /\ ~deviceList[1].alloc

\* A device line: a serial token, a run of blanks, a state (the rest of
\* the line).
IsDeviceLine(line) == FirstWs(line) > 1 /\ StateField(line) # <<>>

\* The field holds a zero-terminated string of at most cap - 1 bytes.
Terminated(field, cap) ==
    /\ Len(field) = cap
    /\ StrLen(field) <= cap - 1
    /\ \E t \in 1..cap : field[t] = NUL

\* C7 as claimed: for every device line, whatever the lengths of its serial
\* and state tokens, Reload stores at most capacity - 1 bytes of the token
\* in the serial field and in the state field, each stored value is a
\* prefix of the reported token followed by a zero terminator, and no byte
\* is written outside the field buffers.
C7_TruncationBoundary ==
    [][(lastOp' = "Reload" /\ ~CmdFailed' /\ IsDeviceLine(lineIn))
         => /\ ~oobWrite'
            /\ \A j \in Slots : j < nWritten'
                 => /\ Terminated(deviceList'[j].serial, SerialCap)
                    /\ Terminated(deviceList'[j].state, StateCap)
                    /\ IsPrefix(CStr(deviceList'[j].serial), SerialField(lineIn))
                    /\ IsPrefix(CStr(deviceList'[j].state), StateField(lineIn))]_vars

\* C7, the part about the buffers alone: whatever the line, the stored
\* serial and state are zero-terminated inside their fields and no byte is
\* written outside them.
C7_WithinFields ==
    [][(lastOp' = "Reload" /\ ~CmdFailed')
         => /\ ~oobWrite'
            /\ \A j \in Slots : j < nWritten'
                 => /\ Terminated(deviceList'[j].serial, SerialCap)
                    /\ Terminated(deviceList'[j].state, StateCap)]_vars

\* A fetched list is still held: it was handed out and never released.
Held(id) == id <= fetched /\ released[id] = 0

\* C8 as claimed: over any sequence of USBMux::Reload calls followed by the
\* destruction of the registry, with the daemon client available, every
\* list obtained from usbmuxd_get_device_list is released exactly once: none
\* is released twice, and none is still held after teardown.
C8_ReleaseDiscipline ==
    /\ \A id \in ListIds : released[id] <= 1
    /\ (~alive /\ ClientUsable(build, hModule))
       => \A id \in ListIds : ~Held(id)

\* C9 as claimed: for every device index outside 0 .. deviceCount-1,
\* negative ones included, and for every index after a Reload whose fetch
\* failed, Connect returns INVALID_SOCKET without calling usbmuxd_connect
\* and without reading an element of the device-info array.
C9_ConnectBounds ==
    (muxOp = "Connect" /\ argDevice \notin 0..(deviceCount - 1))
    => (muxRet = INVALID_SOCKET /\ ~connectCalled /\ ~elemRead)

\* The parser's outputs with no device line: nothing but newlines and
\* header lines.
ZeroLineOutputs ==
    {b \in ParseOutputs : \A k \in 1..Len(OutLines(b)) : OutLines(b)[k] = Header}

\* C10 as claimed: whenever both commands succeed Reload returns true,
\* whatever was captured; for an output that is empty, only newlines or
\* only the header line, no slot is written.
C10_ZeroLinesSucceed ==
    [][(lastOp' = "Reload" /\ ~CmdFailed')
         => /\ retOk'
            /\ lastOut' \in ZeroLineOutputs
               => (nWritten' = 0 /\ deviceList' = deviceList)]_vars

\* C10, the header alone: a Reload that captures at least one line returns
\* true, and writes no slot when every line is the header.
C10_HeaderOnly ==
    [][(lastOp' = "Reload" /\ ~CmdFailed' /\ OutLines(lastOut') # <<>>)
         => /\ retOk'
            /\ lastOut' \in ZeroLineOutputs
               => (nWritten' = 0 /\ deviceList' = deviceList)]_vars

\* C11 as claimed: a USBMux::Reload that stores count n, whatever calls
\* came before it, is followed by NextDevice calls that return records 0,
\* 1, ..., n-1 of the fetched list in order and then null; and NextDevice
\* never returns a record at an index >= the stored count.
C11_EnumerationAfterReload ==
    [][(muxOp' = "NextDevice")
         => /\ muxRet' < deviceCount
            /\ muxOp = "Reload"
               => muxRet' = (IF deviceCount >= 1 THEN 0 ELSE -1)
            /\ (muxOp = "NextDevice" /\ muxRet >= 0)
               => muxRet' = (IF muxRet + 1 < deviceCount THEN muxRet + 1 ELSE -1)
            /\ (muxOp = "NextDevice" /\ muxRet < 0)
               => muxRet' = -1]_vars

\* C11, what holds of the cursor: NextDevice returns the record at the
\* cursor and advances, or null with the cursor at or past the stored
\* count; it never returns a record at an index >= the stored count.
C11_BelowCount ==
    [][(muxOp' = "NextDevice")
         => /\ muxRet' < deviceCount
            /\ muxRet' = (IF muxIter < deviceCount THEN muxIter ELSE -1)]_vars

\* C12: AdbMgr::Reload never empties a slot: a populated slot stays
\* populated over every step, and every slot at an index >= the number of
\* device lines a Reload parsed keeps the serial, state and model
\* (a resolved one included) it had before that Reload.
C12_StaleSlotsPersist ==
    [][/\ \A j \in Slots : deviceList[j].alloc => deviceList'[j].alloc
       /\ lastOp' = "Reload"
          => \A j \in Slots : j >= nWritten' => deviceList'[j] = deviceList[j]]_vars

\* NextDevice returns, with its resolved model and without a new
\* resolution, the device of slot 1 after a Reload that parsed one device
\* line only.
C12_Witness ==
    /\ lastOp = "NextDevice" /\ retDev = 1 /\ nWritten = 1
    /\ roRes = "ok" /\ ddRes = "ok" /\ Len(Strtok(lastOut)) = 2
    /\ ~ModelEmpty(deviceList[1]) /\ ~issued

\* C13 as claimed: for every device line Reload takes as serial the
\* characters before the first blank (space or tab, whichever comes first)
\* and as state the text after the run of blanks that follows it, each cut
\* to its field; a tab-separated line whose state holds a space yields the
\* serial before the tab and the state from the first word on.
C13_FieldSplit ==
    [][(lastOp' = "Reload" /\ ~CmdFailed' /\ IsDeviceLine(lineIn))
         => /\ retOk'
            /\ nWritten' = 1
            /\ Holds(deviceList'[0],
                     [serial |-> Cut(SerialField(lineIn), SerialCap),
                      state |-> Cut(StateField(lineIn), StateCap)])]_vars

\* C13, the lines the code splits as claimed: those whose first blank is
\* the one strchr finds, a space with no tab before it or a tab with no
\* space anywhere in the line.
C13_SplitAtFoundSeparator ==
    [][(/\ lastOp' = "Reload" /\ ~CmdFailed' /\ IsDeviceLine(lineIn)
        /\ FindSep(lineIn) = FirstWs(lineIn))
         => /\ retOk'
            /\ nWritten' = 1
            /\ Holds(deviceList'[0],
                     [serial |-> Cut(SerialField(lineIn), SerialCap),
                      state |-> Cut(StateField(lineIn), StateCap)])]_vars

\* The characters of a text that model resolution lets through, and the
\* run of them the text starts with.
Allowed(text) == SelectSeq(text, ModelCharOk)
RECURSIVE LeadingRun(_)
LeadingRun(text) ==
    IF text # <<>> /\ ModelCharOk(Head(text))
    THEN <<Head(text)>> \o LeadingRun(Tail(text))
    ELSE <<>>
Resolved == fnRet.fn = "GetModel" /\ fnCall.proc = "ok"

\* C14 as claimed: for every text the model command returns, the stored
\* model is the text with every character outside {alphanumeric, space,
\* hyphen, underscore} removed, the characters after a removed one kept,
\* cut to the field; it is zero-terminated inside the model buffer.
C14_ModelFiltered ==
    Resolved
    => /\ CStr(fnRet.model) = Cut(Allowed(fnCall.text), ModelCap)
       /\ Terminated(fnRet.model, ModelCap)

\* C14 amended: the stored model is the run of allowed characters the text
\* starts with, cut to the field capacity minus two bytes; nothing from the
\* first other character on is stored; it is zero-terminated inside the
\* model buffer.
C14_ModelLeadingRun ==
    Resolved
    => /\ CStr(fnRet.model) = Cut(LeadingRun(fnCall.text), ModelCap - 1)
       /\ Terminated(fnRet.model, ModelCap)

\* A text with an allowed character after one that is not: only the part
\* before it is stored.
C14_Witness ==
    /\ Resolved
    /\ fnCall.text = <<"M", NL, "M">>
    /\ CStr(fnRet.model) = <<"M">>

\* C15 as claimed: on every non-null return NextDevice sets *is_offline to
\* 1 exactly when the first 7 bytes of the state of the slot are "offline"
\* and to 0 otherwise, whatever the pointer size of the build; on a null
\* return *is_offline is not written.
C15_OfflineFlag ==
    [][(lastOp' = "NextDevice")
         => IF retDev' >= 0
            THEN is_offline' = (IF StartsOffline(deviceList[retDev']) THEN 1 ELSE 0)
            ELSE is_offline' = is_offline]_vars

\* C15 on a build with 8-byte pointers, where sizeof(offline) - 1 is 7.
C15_OfflineFlag64 ==
    [][(lastOp' = "NextDevice" /\ ptrSize = 8)
         => IF retDev' >= 0
            THEN is_offline' = (IF StartsOffline(deviceList[retDev']) THEN 1 ELSE 0)
            ELSE is_offline' = is_offline]_vars

\* The parser's outputs with the header and more than DEVICES_LIMIT device
\* lines, all well-formed, and for each the serial and state its first
\* DEVICES_LIMIT device lines report, cut to the fields.
OverLimitOutputs ==
    {b \in ParseOutputs :
        /\ OutLines(b) # <<>>
        /\ OutLines(b)[1] = Header
        /\ Len(DeviceLines(b)) > DEVICES_LIMIT
        /\ \A k \in 1..Len(DeviceLines(b)) : WellFormedLine(DeviceLines(b)[k])}
FirstLimit ==
    [b \in OverLimitOutputs |->
        [k \in 1..DEVICES_LIMIT |->
            [serial |-> Cut(SerialField(DeviceLines(b)[k]), SerialCap),
             state |-> Cut(StateField(DeviceLines(b)[k]), StateCap)]]]

\* C16: whatever the output, Reload writes only slots 0 .. DEVICES_LIMIT-1;
\* with more than DEVICES_LIMIT device lines the first DEVICES_LIMIT are
\* stored in order, the rest dropped, and Reload returns true; NextDevice
\* only reads a slot at an index in 0 .. DEVICES_LIMIT-1.
C16_DeviceLimit ==
    [][/\ lastOp' = "Reload"
          => /\ nWritten' \in 0..DEVICES_LIMIT
             /\ DOMAIN deviceList' = Slots
             /\ \A j \in Slots : j >= nWritten' => deviceList'[j] = deviceList[j]
       /\ (lastOp' = "Reload" /\ ~CmdFailed' /\ lastOut' \in OverLimitOutputs)
          => /\ retOk'
             /\ nWritten' = DEVICES_LIMIT
             /\ \A j \in Slots : Holds(deviceList'[j], FirstLimit[lastOut'][j + 1])
       /\ lastOp' = "NextDevice"
          => /\ iter \in 0..DEVICES_LIMIT
             /\ retDev' \in -1..(DEVICES_LIMIT - 1)
             /\ retDev' >= 0 => retDev' = (IF iter >= DEVICES_LIMIT THEN 0 ELSE iter)]_vars

\* A Reload of two device lines more than the table holds: the table is
\* full and Reload returned true.
C16_Witness ==
    /\ lastOp = "Reload" /\ ~CmdFailed /\ lastOut \in OverLimitOutputs
    /\ Len(DeviceLines(lastOut)) = DEVICES_LIMIT + 2
    /\ retOk /\ nWritten = DEVICES_LIMIT
    /\ Populated(deviceList) = Slots

\* C17 as claimed: for every argument count and with or without a serial,
\* adb_execute either rejects the call (PROCESS_NONE, nothing run) or
\* builds the vector inside its 32-entry array: the executable, the "-s
\* <serial>" pair, the arguments and the terminating NULL never occupy an
\* index >= 32.
C17_ArgumentLimit ==
    fnRet.fn = "adb_execute"
    => \/ fnRet.rejected /\ ~fnRet.ran
       \/ ~fnRet.rejected /\ fnRet.top < CmdEntries /\ ~fnRet.oob

\* C17, the calls that fit: up to 28 arguments with a serial and 30
\* without, the vector with its NULL stays inside the array; and no call
\* is rejected before len exceeds the size of the array in bytes less 4.
C17_FitsWhenSmall ==
    fnRet.fn = "adb_execute"
    => /\ fnCall.len + (IF fnCall.hasSerial THEN 3 ELSE 1) < CmdEntries
          => (~fnRet.rejected /\ ~fnRet.oob)
       /\ fnRet.rejected <=> fnCall.len > CmdEntries * ptrSize - 4

\* C18: a NextDevice that returns null leaves the cursor unchanged and
\* Reload never changes it; NextDevice returns null exactly when the slot
\* at the cursor is empty and it populates no slot, so after a null every
\* later call returns null until a Reload populates that slot; the cursor
\* goes back to slot 0, and a slot below the cursor is returned again, only
\* when all DEVICES_LIMIT slots are populated.
C18_CursorSticks ==
    [][/\ (lastOp' = "NextDevice" /\ retDev' = -1) => iter' = iter
       /\ lastOp' = "Reload" => iter' = iter
       /\ lastOp' = "NextDevice"
          => /\ Populated(deviceList') = Populated(deviceList)
             /\ retDev' = -1 <=> (iter < DEVICES_LIMIT /\ ~deviceList[iter].alloc)
       /\ (iter > 0 /\ iter' = 0) => Populated(deviceList) = Slots
       /\ (lastOp' = "NextDevice" /\ retDev' >= 0 /\ retDev' < iter)
          => Populated(deviceList) = Slots]_vars

\* NextDevice returns null at cursor 1, slot 0 populated and slot 1 empty,
\* the calls no longer counted from cursor 0: the device of slot 0 is not
\* returned again.
C18_Witness ==
    /\ lastOp = "NextDevice" /\ retDev = -1 /\ iter = 1 /\ nCalls = -1
    /\ deviceList[0].alloc /\ ~deviceList[1].alloc

\* C19 as claimed: when the model command fails, or prints a text whose
\* first character is outside the allowed ones (an empty text included),
\* the model of the slot stays empty and NextDevice still returns the
\* record; every later NextDevice that returns the slot with a state that
\* is not offline issues the command again.
C19_ModelRetry ==
    [][(lastOp' = "NextDevice" /\ retDev' >= 0)
         => /\ (issued' /\ retDev' \in failed')
               => ModelEmpty(deviceList'[retDev'])
            /\ (retDev' \in failed /\ ~StartsOffline(deviceList[retDev']))
               => issued']_vars

\* C19 on a build with 8-byte pointers.
C19_ModelRetry64 ==
    [][(lastOp' = "NextDevice" /\ retDev' >= 0 /\ ptrSize = 8)
         => /\ (issued' /\ retDev' \in failed')
               => ModelEmpty(deviceList'[retDev'])
            /\ (retDev' \in failed /\ ~StartsOffline(deviceList[retDev']))
               => issued']_vars

\* The length of the serialized vector: the arguments with one space
\* between two of them.
RECURSIVE SumLens(_)
SumLens(lens) == IF lens = <<>> THEN 0 ELSE Head(lens) + SumLens(Tail(lens))
Serialized(lens) ==
    IF lens = <<>> THEN 0 ELSE SumLens(lens) + Len(lens) - 1

\* C20 as claimed: for every argument vector and every bufsize >= 2,
\* argv_to_string writes only buf[0 .. bufsize-1], never computes a
\* negative (wrapped-around) copy length, leaves buf zero-terminated, and
\* returns true exactly when the serialized arguments with their
\* terminator did not fit.
C20_ArgvInsideBuffer ==
    fnRet.fn = "argv_to_string"
    => /\ ~fnRet.wrapped
       /\ fnRet.top <= fnCall.bufsize - 1
       /\ fnRet.term \in 0..(fnCall.bufsize - 1)
       /\ fnRet.ret <=> (Serialized(fnCall.lens) + 1 > fnCall.bufsize)

\* C20, the calls in which no copy length wraps around: every write is
\* inside buf and the terminator is inside buf.
C20_InsideUnlessWrapped ==
    (fnRet.fn = "argv_to_string" /\ ~fnRet.wrapped)
    => /\ fnRet.top <= fnCall.bufsize - 1
       /\ fnRet.term \in 0..(fnCall.bufsize - 1)

====
